---- MODULE Spec2Model ----
(***************************************************************************)
(* Model of the two analysis notebooks of the repository:                  *)
(*   - the lookalike notebook     (load_data, create_customer_features,    *)
(*     calculate_similarity, save_recommendations), and                    *)
(*   - the segmentation notebook  (load_data, create_customer_features,    *)
(*     perform_clustering, visualize_clusters, save_results).              *)
(* A run executes the cells of one notebook top to bottom; an exception    *)
(* that escapes a cell ends the run.                                       *)
(*                                                                         *)
(* Numbers.  Feature cells are exact rationals <<num, den>> in lowest      *)
(* terms.  A cosine similarity is kept exactly as [sgn, num, den], the     *)
(* value sgn * sqrt(num/den) with num/den in lowest terms, so that two     *)
(* scores are equal exactly when their records are equal.                  *)
(***************************************************************************)
EXTENDS Integers, Sequences, FiniteSets, TLC

VARIABLES
    nb,               \* which notebook runs: "lookalike" or "segmentation"
    pc,               \* the cell about to run, "done" or "aborted"
    csv,              \* the three input files as found on disk
    customers,        \* notebook globals: the loaded tables (or None)
    products,
    transactions,
    features,         \* notebook global: the feature table (or None)
    recommendations,  \* notebook global of the lookalike notebook
    clusters,         \* notebook global of the segmentation notebook
    files,            \* the files written by the run
    out,              \* the messages printed so far
    escaped           \* the stage functions an exception has propagated out of

vars == <<nb, pc, csv, customers, products, transactions, features,
          recommendations, clusters, files, out, escaped>>

\* Python's None.  Every value a notebook global can hold is a record, so that
\* it can be compared with None.
None == [none |-> TRUE]

-----------------------------------------------------------------------------
(* Bounds of the model.                                                     *)

MaxRows == 4          \* rows of a feature table handed to the engines
MaxTx == 2            \* rows of Transactions.csv
MaxCustomerRows == 2  \* rows of Customers.csv

-----------------------------------------------------------------------------
(* Arithmetic helpers.                                                      *)

Abs(x) == IF x < 0 THEN -x ELSE x

Sgn(x) == IF x < 0 THEN -1 ELSE IF x > 0 THEN 1 ELSE 0

RECURSIVE GCD(_, _)
GCD(a, b) == IF b = 0 THEN Abs(a) ELSE GCD(b, a % b)

LCM(a, b) == IF a = 0 \/ b = 0 THEN 0 ELSE (Abs(a) \div GCD(a, b)) * Abs(b)

RECURSIVE SetGCD(_)
SetGCD(S) ==
    IF S = {} THEN 0
    ELSE LET x == CHOOSE y \in S : TRUE IN GCD(x, SetGCD(S \ {x}))

RECURSIVE SetLCM(_)
SetLCM(S) ==
    IF S = {} THEN 1
    ELSE LET x == CHOOSE y \in S : TRUE IN LCM(x, SetLCM(S \ {x}))

RECURSIVE SumOver(_, _)
SumOver(S, f) ==
    IF S = {} THEN 0
    ELSE LET x == CHOOSE y \in S : TRUE IN f[x] + SumOver(S \ {x}, f)

\* A rational in lowest terms with a positive denominator.
Rat(n, d) == LET g == GCD(n, d) IN <<n \div g, d \div g>>

RatInt(n) == <<n, 1>>

RatAdd(a, b) == Rat(a[1] * b[2] + b[1] * a[2], a[2] * b[2])

RECURSIVE RatSum(_, _)
RatSum(S, f) ==
    IF S = {} THEN RatInt(0)
    ELSE LET x == CHOOSE y \in S : TRUE IN RatAdd(f[x], RatSum(S \ {x}, f))

Range(s) == {s[i] : i \in 1..Len(s)}

\* The elements of a finite set of integers in ascending order.
RECURSIVE SortedSeq(_)
SortedSeq(S) ==
    IF S = {} THEN <<>>
    ELSE LET m == CHOOSE x \in S : \A y \in S : x <= y
         IN <<m>> \o SortedSeq(S \ {m})

Reverse(s) == [i \in 1..Len(s) |-> s[Len(s) + 1 - i]]

-----------------------------------------------------------------------------
(* Tables.  A DataFrame is [cols, rows]: the set of its column names and    *)
(* the sequence of its rows.  A customer id is the natural number i that    *)
(* stands for the string 'C' + str(i).zfill(4).  A feature table is the     *)
(* sequence of its rows [CustomerID, val], val mapping each feature column  *)
(* to a rational.                                                           *)

NumTargets == 20

\* target_customers = [f'C{str(i).zfill(4)}' for i in range(1, 21)]
target_customers == [i \in 1..NumTargets |-> i]

TopSlice == 4

FeatureIds(F) == {F.rows[i].CustomerID : i \in 1..Len(F.rows)}

\* features.columns.difference(['CustomerID'])
feature_cols(F) == F.cols \ {"CustomerID"}

-----------------------------------------------------------------------------
(* The similarity engine.                                                   *)

\* One column as integers on a common denominator.  Multiplying a column by
\* a positive constant does not change its standardized values.
ColInts(F, c) ==
    LET L == SetLCM({F.rows[i].val[c][2] : i \in 1..Len(F.rows)})
    IN  [i \in 1..Len(F.rows) |->
            F.rows[i].val[c][1] * (L \div F.rows[i].val[c][2])]

\* StandardScaler().fit_transform: per column, value minus column mean over
\* column standard deviation.  With n rows, X the column and D[i] =
\* n*X[i] - Sum(X), the standardized value is D[i] * sqrt(n / Sum(D^2));
\* a column of zero variance standardizes to zeros.  The result is kept as
\* dev (the D[i] divided by their common divisor) and sq (Sum of dev^2), the
\* standardized value being dev[i] * sqrt(n / sq).
StandardScaler(F) ==
    [c \in feature_cols(F) |->
        LET n == Len(F.rows)
            X == ColInts(F, c)
            S == SumOver(1..n, X)
            D == [i \in 1..n |-> n * X[i] - S]
            g == SetGCD({D[i] : i \in 1..n})
            d == [i \in 1..n |-> IF g = 0 THEN 0 ELSE D[i] \div g]
        IN  [dev |-> d, sq |-> SumOver(1..n, [i \in 1..n |-> d[i] * d[i]])]]

\* The cosine score sgn * sqrt(num / den) of two rows with dot product p and
\* squared norms a and b (all on one common positive scale); 0 when a row has
\* norm 0, as sklearn's normalize leaves a zero row zero.
Cosine(p, a, b) ==
    IF a = 0 \/ b = 0 \/ p = 0 THEN [sgn |-> 0, num |-> 0, den |-> 1]
    ELSE LET g1 == GCD(p, a)
             g2 == GCD(p, b)
             r  == Rat(Abs(p \div g1) * Abs(p \div g2), (a \div g1) * (b \div g2))
         IN  [sgn |-> Sgn(p), num |-> r[1], den |-> r[2]]

\* cosine_similarity(scaled_features): the full pairwise matrix.
cosine_similarity(Z, n) ==
    LET live == {c \in DOMAIN Z : Z[c].sq > 0}
        M == SetLCM({Z[c].sq : c \in live})
        P == [i \in 1..n |-> [j \in 1..n |->
                SumOver(live, [c \in live |->
                    Z[c].dev[i] * Z[c].dev[j] * (M \div Z[c].sq)])]]
    IN  [i \in 1..n |-> [j \in 1..n |-> Cosine(P[i][j], P[i][i], P[j][j])]]

\* a < b for two cosine scores (x |-> sgn(x) * x^2 is increasing).
ScoreLess(a, b) == a.sgn * a.num * b.den < b.sgn * b.num * a.den

\* np.argsort(scores): the default sort kind is not stable, so any index
\* order that puts the scores in ascending order is a possible result.
RECURSIVE ArgSortsOf(_, _)
ArgSortsOf(scores, I) ==
    IF I = {} THEN {<<>>}
    ELSE UNION {{<<m>> \o rest : rest \in ArgSortsOf(scores, I \ {m})} :
                 m \in {i \in I : \A j \in I : ~ScoreLess(scores[j], scores[i])}}

argsort(scores) == ArgSortsOf(scores, DOMAIN scores)

LastOf(order, k) ==
    SubSeq(order, IF Len(order) > k THEN Len(order) - k + 1 ELSE 1, Len(order))

\* A variant without the final reversal: order[-4:][:-1]
similar_indices_ascending(order) ==
    SubSeq(LastOf(order, TopSlice), 1, Len(LastOf(order, TopSlice)) - 1)

\* A variant that slices one index less: order[-3:][:-1][::-1]
similar_indices_short(order) ==
    Reverse(SubSeq(LastOf(order, TopSlice - 1), 1,
                   Len(LastOf(order, TopSlice - 1)) - 1))

\* A variant that keeps the four indices: order[-4:][::-1]
similar_indices_unsliced(order) == Reverse(LastOf(order, TopSlice))

\* order[-4:][:-1][::-1]
similar_indices(order) ==
    LET last4 == LastOf(order, TopSlice)
    IN  Reverse(SubSeq(last4, 1, Len(last4) - 1))

\* customer_indices = {cid: idx for idx, cid in enumerate(features['CustomerID'])}:
\* a repeated id keeps its last index.
customer_indices(F) ==
    [cid \in FeatureIds(F) |->
        CHOOSE i \in 1..Len(F.rows) :
            /\ F.rows[i].CustomerID = cid
            /\ \A j \in 1..Len(F.rows) : F.rows[j].CustomerID = cid => j <= i]

\* The lists recommendations[target_id] can be set to.
NeighborLists(F, sim, target_id) ==
    LET target_idx == customer_indices(F)[target_id]
        scores     == sim[target_idx]
    IN  {[k \in 1..Len(si) |-> <<F.rows[si[k]].CustomerID, scores[si[k]]>>] :
            si \in {similar_indices(o) : o \in argsort(scores)}}

\* The loop over target_customers: the mappings it can build for the set T of
\* targets found in customer_indices.
RECURSIVE LoopResults(_, _, _)
LoopResults(F, sim, T) ==
    IF T = {} THEN {[x \in {} |-> <<>>]}
    ELSE LET t == CHOOSE x \in T : TRUE
         IN  {[x \in T |-> IF x = t THEN l ELSE g[x]] :
                 l \in NeighborLists(F, sim, t),
                 g \in LoopResults(F, sim, T \ {t})}

\* A variant without the membership test: customer_indices[target_id] raises
\* for a target that is not in the feature table.
calculate_similarity_unguarded(F, targets) ==
    IF F = None \/ F.rows = <<>> \/ ~(Range(targets) \subseteq FeatureIds(F))
    THEN {[ret |-> None, out |-> <<"Error calculating similarity">>]}
    ELSE {[ret |-> [map |-> r], out |-> <<>>] :
            r \in LoopResults(F, cosine_similarity(StandardScaler(F), Len(F.rows)),
                              Range(targets))}

\* calculate_similarity(features, target_customers): the set of its possible
\* outcomes [ret, out].  features None (features.columns) or without rows
\* (StandardScaler on 0 samples) raises inside the try.
calculate_similarity(F, targets) ==
    IF F = None \/ F.rows = <<>>
    THEN {[ret |-> None, out |-> <<"Error calculating similarity">>]}
    ELSE LET sim == cosine_similarity(StandardScaler(F), Len(F.rows))
             T   == {t \in Range(targets) : t \in FeatureIds(F)}
         IN  {[ret |-> [map |-> r], out |-> <<>>] : r \in LoopResults(F, sim, T)}

-----------------------------------------------------------------------------
(* The dataset loader.                                                      *)

\* transactions.rename(columns={'customer_id': 'CustomerID',
\*                              'product_id': 'ProductID'}, inplace=True)
rename(df) ==
    [df EXCEPT !.cols =
        {IF c = "customer_id" THEN "CustomerID"
         ELSE IF c = "product_id" THEN "ProductID" ELSE c : c \in df.cols}]

\* load_data(): [ret, out].  pd.read_csv of a missing file raises inside the
\* try; only the transactions table has its id columns renamed.
load_data(disk) ==
    IF disk.Customers = None \/ disk.Products = None \/ disk.Transactions = None
    THEN [ret |-> <<None, None, None>>, out |-> <<"Error loading data">>]
    ELSE [ret |-> <<disk.Customers, disk.Products, rename(disk.Transactions)>>,
          out |-> <<>>]

-----------------------------------------------------------------------------
(* The feature builder.                                                     *)

TicksPerDay == 2      \* a TransactionDate is a whole number of half days

TxIds(tx) == {tx.rows[i].CustomerID : i \in 1..Len(tx.rows)}

TxOf(tx, cid) == {i \in 1..Len(tx.rows) : tx.rows[i].CustomerID = cid}

MaxOf(S) == CHOOSE x \in S : \A y \in S : y <= x

\* transactions.groupby('CustomerID').agg({'TotalValue': ['sum','mean','count'],
\* 'Quantity': ['sum','mean']}).reset_index(), with the flattened column names:
\* one row per distinct CustomerID of transactions, in ascending id order.
purchase_stats(tx) ==
    LET ids == SortedSeq(TxIds(tx))
    IN  [k \in 1..Len(ids) |->
            LET I  == TxOf(tx, ids[k])
                tv == SumOver(I, [i \in I |-> tx.rows[i].TotalValue])
                q  == SumOver(I, [i \in I |-> tx.rows[i].Quantity])
            IN  [CustomerID       |-> ids[k],
                 TotalValue_sum   |-> RatInt(tv),
                 TotalValue_mean  |-> Rat(tv, Cardinality(I)),
                 TotalValue_count |-> RatInt(Cardinality(I)),
                 Quantity_sum     |-> RatInt(q),
                 Quantity_mean    |-> Rat(q, Cardinality(I))]]

\* A missing value of a table.
NaN == "NaN"

\* transactions.merge(products[['ProductID', 'Category']], on='ProductID'):
\* the inner join, one row <<transaction row, product row>> per match.
product_categories(tx, pr) ==
    {<<i, j>> \in (1..Len(tx.rows)) \X (1..Len(pr.rows)) :
        tx.rows[i].ProductID = pr.rows[j].ProductID}

\* The rows of the join that pd.crosstab counts: it drops the rows whose
\* Category is missing.
crosstab_rows(tx, pr) ==
    {m \in product_categories(tx, pr) : pr.rows[m[2]].Category # NaN}

\* A variant that divides by the customer's number of transactions.
crosstab_total_transactions(tx, pr, cid) == Cardinality(TxOf(tx, cid))

\* normalize='index': the divisor of a crosstab row is the row's own total,
\* the number of rows of the join for that customer.
crosstab_total(tx, pr, cid) ==
    Cardinality({m \in crosstab_rows(tx, pr) : tx.rows[m[1]].CustomerID = cid})

\* pd.crosstab(CustomerID, Category, normalize='index') of the join: a row per
\* customer of the join, a column per category of the join, each count
\* divided by the row's total.
category_pivoted(tx, pr) ==
    LET pc_  == crosstab_rows(tx, pr)
        cids == {tx.rows[m[1]].CustomerID : m \in pc_}
        cats == {pr.rows[m[2]].Category : m \in pc_}
        cnt(cid, cat) == Cardinality({m \in pc_ :
                            /\ tx.rows[m[1]].CustomerID = cid
                            /\ pr.rows[m[2]].Category = cat})
    IN  [cid \in cids |->
            [cat \in cats |-> Rat(cnt(cid, cat), crosstab_total(tx, pr, cid))]]

\* latest_date = pd.to_datetime(transactions['TransactionDate']).max()
latest_date(tx) == MaxOf({tx.rows[i].TransactionDate : i \in 1..Len(tx.rows)})

MinOf(S) == CHOOSE x \in S : \A y \in S : x <= y

\* A variant that takes the customer's first transaction date.
customer_first_date(tx, cid) ==
    MinOf({tx.rows[i].TransactionDate : i \in TxOf(tx, cid)})

\* pd.to_datetime(x).max() over the customer's transactions.
customer_last_date(tx, cid) ==
    MaxOf({tx.rows[i].TransactionDate : i \in TxOf(tx, cid)})

\* (latest_date - pd.to_datetime(x).max()).days per customer: whole days.
recency(tx) ==
    [cid \in TxIds(tx) |->
        (latest_date(tx) - customer_last_date(tx, cid)) \div TicksPerDay]

RegionCol(r) ==
    CASE r = "Asia" -> "region_Asia"
      [] r = "Europe" -> "region_Europe"
      [] OTHER -> "region_Other"

\* pd.get_dummies(customers[['CustomerID', 'Region']], prefix='region',
\* columns=['Region']): a row per row of customers, an indicator column per
\* region value of the table.
region_dummies(cu) ==
    LET regs == {cu.rows[i].Region : i \in 1..Len(cu.rows)}
    IN  [i \in 1..Len(cu.rows) |->
            [CustomerID |-> cu.rows[i].CustomerID,
             val |-> [c \in {RegionCol(r) : r \in regs} |->
                        RatInt(IF c = RegionCol(cu.rows[i].Region) THEN 1 ELSE 0)]]]

StatCols ==
    {"TotalValue_sum", "TotalValue_mean", "TotalValue_count",
     "Quantity_sum", "Quantity_mean"}

\* The rows a left merge on CustomerID gives one left row: one per matching
\* row of the right table, in its order, or one row of missing values.
RECURSIVE Flatten(_)
Flatten(ss) == IF ss = <<>> THEN <<>> ELSE Head(ss) \o Flatten(Tail(ss))

RECURSIVE SelectIdx(_, _, _)
SelectIdx(rd, cid, i) ==
    IF i > Len(rd) THEN <<>>
    ELSE (IF rd[i].CustomerID = cid THEN <<i>> ELSE <<>>)
         \o SelectIdx(rd, cid, i + 1)

\* A variant for how='inner': a left row without a match is dropped.
inner_merge_matches(rd, cid) == SelectIdx(rd, cid, 1)

\* A variant for how='cross': every row of the right table matches.
cross_merge_matches(rd, cid) == [i \in 1..Len(rd) |-> i]

\* how='left': the rows of the right table matching one left row, in order;
\* 0 stands for the row of missing values a left row without a match gets.
left_merge_matches(rd, cid) ==
    IF SelectIdx(rd, cid, 1) = <<>> THEN <<0>> ELSE SelectIdx(rd, cid, 1)

\* purchase_stats.merge(category_pivoted.reset_index(), how='left')
\*   .merge(recency.reset_index(), how='left')
\*   .merge(region_dummies, how='left'), then fillna(0).
final_features(cu, tx, pr) ==
    LET ps   == purchase_stats(tx)
        cp   == category_pivoted(tx, pr)
        cats == {pr.rows[m[2]].Category : m \in crosstab_rows(tx, pr)}
        rec  == recency(tx)
        rd   == region_dummies(cu)
        regs == {RegionCol(cu.rows[i].Region) : i \in 1..Len(cu.rows)}
        cols == StatCols \cup cats \cup {"recency"} \cup regs
        row(k, m) ==
            [CustomerID |-> ps[k].CustomerID,
             val |-> [c \in cols |->
                CASE c = "TotalValue_sum"   -> ps[k].TotalValue_sum
                  [] c = "TotalValue_mean"  -> ps[k].TotalValue_mean
                  [] c = "TotalValue_count" -> ps[k].TotalValue_count
                  [] c = "Quantity_sum"     -> ps[k].Quantity_sum
                  [] c = "Quantity_mean"    -> ps[k].Quantity_mean
                  [] c = "recency"          -> RatInt(rec[ps[k].CustomerID])
                  [] c \in cats ->
                        IF ps[k].CustomerID \in DOMAIN cp
                        THEN cp[ps[k].CustomerID][c] ELSE RatInt(0)
                  [] OTHER -> IF m = 0 THEN RatInt(0) ELSE rd[m].val[c]]]
        rowsOf(k) ==
            LET ms == left_merge_matches(rd, ps[k].CustomerID)
            IN  [x \in 1..Len(ms) |-> row(k, ms[x])]
    IN  [cols |-> {"CustomerID"} \cup cols,
         rows |-> Flatten([k \in 1..Len(ps) |-> rowsOf(k)])]

\* create_customer_features(customers, transactions, products):
\* [ret, raised, out].  The except handler prints purchase_stats,
\* category_pivoted and region_dummies: when the failure came before one of
\* them was assigned, the handler itself raises (UnboundLocalError) and the
\* exception leaves the function.
create_customer_features(cu, tx, pr) ==
    LET failed(bound) ==
            [ret |-> None,
             raised |-> bound < 3,
             out |-> <<"Error creating features", "Debugging info">>
                     \o (IF bound >= 1 THEN <<"Purchase stats columns">> ELSE <<>>)
                     \o (IF bound >= 2 THEN <<"Category pivot columns">> ELSE <<>>)
                     \o (IF bound >= 3 THEN <<"Region dummy columns">> ELSE <<>>)]
    IN  IF tx = None THEN failed(0)
        ELSE IF ~({"CustomerID", "TotalValue", "Quantity"} \subseteq tx.cols)
        THEN failed(0)
        ELSE IF pr = None THEN failed(1)
        ELSE IF ~({"ProductID", "Category"} \subseteq pr.cols
                  /\ "ProductID" \in tx.cols)
        THEN failed(1)
        ELSE IF "TransactionDate" \notin tx.cols THEN failed(2)
        ELSE IF cu = None THEN failed(2)
        ELSE IF ~({"CustomerID", "Region"} \subseteq cu.cols) THEN failed(2)
        ELSE IF cu.iddtype # "object" THEN failed(3)
        ELSE [ret |-> final_features(cu, tx, pr), raised |-> FALSE, out |-> <<>>]

-----------------------------------------------------------------------------
(* The export of the recommendations.                                       *)

Base == 10000

\* floor(whole * (b1 * ... * bk) + rem * (b1 * ... * bk) / den) for the
\* factors bs, by long division (no intermediate exceeds rem * b).
RECURSIVE ScaledFloor(_, _, _, _)
ScaledFloor(whole, rem, den, bs) ==
    IF bs = <<>> THEN whole
    ELSE ScaledFloor(whole * Head(bs) + (rem * Head(bs)) \div den,
                     (rem * Head(bs)) % den, den, Tail(bs))

\* The least q in lo..hi with (2q+1)^2 > k.
RECURSIVE RoundSearch(_, _, _)
RoundSearch(k, lo, hi) ==
    IF lo >= hi THEN lo
    ELSE LET mid == (lo + hi) \div 2
         IN  IF (2 * mid + 1) * (2 * mid + 1) > k
             THEN RoundSearch(k, lo, mid)
             ELSE RoundSearch(k, mid + 1, hi)

RECURSIVE ScaledRem(_, _, _)
ScaledRem(rem, den, bs) ==
    IF bs = <<>> THEN rem
    ELSE ScaledRem((rem * Head(bs)) % den, den, Tail(bs))

\* A variant that cuts the digits after the fourth decimal: the greatest q
\* with q <= |score| * 10^4, that is with q^2 <= 10^8 * num / den.
Round4_truncated(score) ==
    LET k == ScaledFloor(score.num \div score.den, score.num % score.den,
                         score.den, <<Base, Base>>)
    IN  {CHOOSE q \in 0..Base : q * q <= k /\ (q + 1) * (q + 1) > k}

\* |score| * 10^4 rounded to a whole number: the least q with
\* |score| * 10^4 < q + 1/2, that is with (2q+1)^2 > 4 * 10^8 * num / den.
\* A score exactly half way between two numbers of ten-thousandths can be
\* printed as either: the float that holds it decides.
Round4(score) ==
    LET bs == <<Base, Base, 4>>
        k  == ScaledFloor(score.num \div score.den, score.num % score.den,
                          score.den, bs)
        q  == RoundSearch(k, 0, Base)
    IN  IF /\ ScaledRem(score.num % score.den, score.den, bs) = 0
           /\ q > 0
           /\ (2 * q - 1) * (2 * q - 1) = k
        THEN {q - 1, q}
        ELSE {q}

\* f"{score:.4f}": the sign and the number of ten-thousandths printed.
format4(score) == {[neg |-> score.sgn < 0, tenk |-> q] : q \in Round4(score)}

\* ';'.join([f"{cid},{score:.4f}" for cid, score in recs]): the strings it
\* can give, each as the sequence of its <<cid, formatted score>> pairs.
RECURSIVE rec_str(_)
rec_str(recs) ==
    IF recs = <<>> THEN {<<>>}
    ELSE {<<<<Head(recs)[1], f>>>> \o rest :
            f \in format4(Head(recs)[2]), rest \in rec_str(Tail(recs))}

RECURSIVE FileRows(_, _)
FileRows(map, T) ==
    IF T = {} THEN {[x \in {} |-> <<>>]}
    ELSE LET t == CHOOSE x \in T : TRUE
         IN  {[x \in T |-> IF x = t THEN l ELSE g[x]] :
                 l \in rec_str(map[t]), g \in FileRows(map, T \ {t})}

\* save_recommendations(recommendations, output_file): the set of its
\* outcomes [file, out].  recommendations None raises at .items(), inside the
\* try, before to_csv.
save_recommendations(recs) ==
    IF recs = None
    THEN {[file |-> None, out |-> <<"Error saving recommendations">>]}
    ELSE {[file |-> [rows |-> rows], out |-> <<"Recommendations saved">>] :
            rows \in FileRows(recs.map, DOMAIN recs.map)}

-----------------------------------------------------------------------------
(* The clustering engine and its reporting.                                 *)

n_clusters == 5

\* Rows with equal feature values are one point for KMeans.
SamePoint(F, i, j) == F.rows[i].val = F.rows[j].val

\* kmeans.fit_predict(scaled_features): a label in [0, n_clusters) per row,
\* equal points labelled alike; which labelling is the library's choice.
KMeansLabels(F) ==
    LET first(i) == CHOOSE j \in 1..Len(F.rows) :
                        /\ SamePoint(F, i, j)
                        /\ \A m \in 1..Len(F.rows) : SamePoint(F, i, m) => j <= m
        firsts   == {first(i) : i \in 1..Len(F.rows)}
    IN  {[i \in 1..Len(F.rows) |-> g[first(i)]] :
            g \in [firsts -> 0..(n_clusters - 1)]}

\* perform_clustering(features, n_clusters): the set of its outcomes
\* [clusters, db_index, out].  KMeans raises when there are fewer rows than
\* clusters; davies_bouldin_score raises unless 1 < number of labels < rows.
perform_clustering(F) ==
    LET err == [clusters |-> None, db_index |-> None,
                out |-> <<"Error performing clustering">>]
    IN  IF F = None THEN {err}
        ELSE IF Len(F.rows) < n_clusters THEN {err}
        ELSE {LET k == Cardinality(Range(l))
              IN  IF 1 < k /\ k < Len(F.rows)
                  THEN [clusters |-> [labels |-> l],
                        db_index |-> [finite |-> TRUE], out |-> <<>>]
                  ELSE err : l \in KMeansLabels(F)}

\* visualize_clusters(features): the messages and figures it leaves.  The
\* first scatter plot names the columns total_spend_sum, recency and Cluster.
visualize_clusters(F) ==
    IF F = None THEN <<"Error visualizing clusters">>
    ELSE IF ~({"total_spend_sum", "recency", "Cluster"} \subseteq F.cols)
    THEN <<"Error visualizing clusters">>
    ELSE IF ~({"TotalValue_count", "TotalValue_mean", "Cluster"} \subseteq F.cols)
    THEN <<"Figure: Total Spend vs. Recency", "Error visualizing clusters">>
    ELSE <<"Figure: Total Spend vs. Recency",
           "Figure: Total Transactions vs. Average Transaction Value">>

\* save_results(features, output_file): [file, out].
save_results(F) ==
    IF F = None
    THEN [file |-> None, out |-> <<"Error saving results">>]
    ELSE [file |-> F, out |-> <<"Clustering results saved">>]

-----------------------------------------------------------------------------
(* The input files.                                                         *)

TxCustomers == {1, 2}
ProductIds == {1, 2}
Dates == {0, 1, 3}
Regions == {"Asia", "Europe"}

TxRecords ==
    [CustomerID : TxCustomers, ProductID : ProductIds, Quantity : {1},
     TotalValue : {2}, TransactionDate : Dates]

\* The row order of Transactions.csv changes no aggregate the notebooks
\* compute, so one order stands for each multiset of rows.
TxKey(r) == (r.CustomerID * 10 + r.ProductID) * 10 + r.TransactionDate

TxRowSeqs ==
    UNION {{t \in [1..k -> TxRecords] :
              \A i \in 1..(k - 1) : TxKey(t[i]) <= TxKey(t[i + 1])} : k \in 1..MaxTx}

CustomerRecords == [CustomerID : TxCustomers, Region : Regions]

CustomerRowSeqs == UNION {[1..k -> CustomerRecords] : k \in 0..MaxCustomerRows}

Product(p, c) == [ProductID |-> p, Category |-> c]

ProductRowSeqs ==
    {<<Product(1, "Books"), Product(2, "Clothing")>>,
     <<Product(1, "Books")>>,
     <<Product(1, "Books"), Product(2, NaN)>>,
     <<Product(1, "Books"), Product(1, "Clothing"), Product(2, "Clothing")>>}

CustomersCsv(idcol, dtype, rows) ==
    [cols |-> {idcol, "Region"}, iddtype |-> dtype, rows |-> rows]

ProductsCsv(idcol, rows) == [cols |-> {idcol, "Category"}, rows |-> rows]

TransactionsCsv(cidcol, pidcol, rows) ==
    [cols |-> {cidcol, pidcol, "Quantity", "TotalValue", "TransactionDate"},
     rows |-> rows]

\* Well-formed files with varied rows.  At least one transaction names a
\* product of the products table that has a category (the crosstab of an
\* empty join is left out).
DataWorlds ==
    {w \in [Customers : {CustomersCsv("CustomerID", "object", r) : r \in CustomerRowSeqs},
            Products : {ProductsCsv("ProductID", r) : r \in ProductRowSeqs},
            Transactions : {TransactionsCsv("CustomerID", "ProductID", r) :
                                r \in TxRowSeqs}] :
        crosstab_rows(w.Transactions, w.Products) # {}}

SmallCustomers == <<[CustomerID |-> 1, Region |-> "Asia"],
                    [CustomerID |-> 2, Region |-> "Europe"]>>

SmallProducts == <<Product(1, "Books"), Product(2, "Clothing")>>

SmallTransactions ==
    <<[CustomerID |-> 1, ProductID |-> 1, Quantity |-> 1, TotalValue |-> 2,
       TransactionDate |-> 0],
      [CustomerID |-> 2, ProductID |-> 2, Quantity |-> 1, TotalValue |-> 2,
       TransactionDate |-> 3]>>

\* Files that are missing, name their id columns in lower snake case, or
\* hold numeric customer ids, around one small dataset.
DefectWorlds ==
    [Customers : {None, CustomersCsv("CustomerID", "object", SmallCustomers),
                  CustomersCsv("customer_id", "object", SmallCustomers),
                  CustomersCsv("CustomerID", "int64", SmallCustomers)},
     Products : {None, ProductsCsv("ProductID", SmallProducts),
                 ProductsCsv("product_id", SmallProducts)},
     Transactions : {None,
                     TransactionsCsv("CustomerID", "ProductID", SmallTransactions),
                     TransactionsCsv("customer_id", "product_id", SmallTransactions)}]

-----------------------------------------------------------------------------
(* The notebooks, one action per cell.                                      *)

Init ==
    /\ nb \in {"lookalike", "segmentation"}
    /\ pc = "load"
    /\ csv \in DataWorlds \cup DefectWorlds
    /\ customers = None
    /\ products = None
    /\ transactions = None
    /\ features = None
    /\ recommendations = None
    /\ clusters = None
    /\ files = [Lookalike |-> None, Segments |-> None]
    /\ out = <<>>
    /\ escaped = {}

\* customers, products, transactions = load_data(); the prints after it read
\* transactions.shape, which raises when load_data returned None.
LoadData ==
    /\ pc = "load"
    /\ LET r == load_data(csv)
       IN  /\ customers' = r.ret[1]
           /\ products' = r.ret[2]
           /\ transactions' = r.ret[3]
           /\ out' = out \o r.out \o <<"Data loaded successfully">>
           /\ pc' = IF r.ret[3] = None THEN "aborted" ELSE "features"
    /\ UNCHANGED <<nb, csv, features, recommendations, clusters, files, escaped>>

\* features = create_customer_features(customers, transactions, products);
\* the prints after it read features.shape.
CreateCustomerFeatures ==
    /\ pc = "features"
    /\ LET r == create_customer_features(customers, transactions, products)
       IN  IF r.raised
           THEN /\ escaped' = escaped \cup {"create_customer_features"}
                /\ features' = features
                /\ out' = out \o r.out
                /\ pc' = "aborted"
           ELSE /\ escaped' = escaped
                /\ features' = r.ret
                /\ out' = out \o r.out \o <<"Features created successfully">>
                /\ pc' = IF r.ret = None THEN "aborted"
                         ELSE IF nb = "lookalike" THEN "similarity"
                         ELSE "clustering"
    /\ UNCHANGED <<nb, csv, customers, products, transactions, recommendations,
                   clusters, files>>

\* recommendations = calculate_similarity(features, target_customers), and
\* the listing printed when the mapping is not empty.
CalculateSimilarity ==
    /\ pc = "similarity"
    /\ \E r \in calculate_similarity(features, target_customers) :
        /\ recommendations' = r.ret
        /\ out' = out \o r.out
                  \o (IF r.ret # None /\ DOMAIN r.ret.map # {}
                      THEN <<"Top 3 Lookalike Recommendations">> ELSE <<>>)
    /\ pc' = "save_recs"
    /\ UNCHANGED <<nb, csv, customers, products, transactions, features,
                   clusters, files, escaped>>

\* save_recommendations(recommendations, "Lookalike.csv")
SaveRecommendations ==
    /\ pc = "save_recs"
    /\ \E r \in save_recommendations(recommendations) :
        /\ files' = IF r.file = None THEN files
                    ELSE [files EXCEPT !.Lookalike = r.file]
        /\ out' = out \o r.out
    /\ pc' = "done"
    /\ UNCHANGED <<nb, csv, customers, products, transactions, features,
                   recommendations, clusters, escaped>>

\* features['Cluster'] = clusters
WithCluster(F, l) ==
    [cols |-> F.cols \cup {"Cluster"},
     rows |-> [i \in 1..Len(F.rows) |->
                [CustomerID |-> F.rows[i].CustomerID,
                 val |-> [c \in DOMAIN F.rows[i].val \cup {"Cluster"} |->
                            IF c = "Cluster" THEN RatInt(l[i])
                            ELSE F.rows[i].val[c]]]]]

\* clusters, db_index = perform_clustering(features, n_clusters=5), and the
\* Cluster column added when clusters is not None.
PerformClustering ==
    /\ pc = "clustering"
    /\ \E r \in perform_clustering(features) :
        /\ clusters' = r.clusters
        /\ features' = IF r.clusters # None
                       THEN WithCluster(features, r.clusters.labels)
                       ELSE features
        /\ out' = out \o r.out
                  \o (IF r.clusters # None
                      THEN <<"Clustering performed successfully">> ELSE <<>>)
    /\ pc' = "visualize"
    /\ UNCHANGED <<nb, csv, customers, products, transactions, recommendations,
                   files, escaped>>

\* visualize_clusters(features)
VisualizeClusters ==
    /\ pc = "visualize"
    /\ out' = out \o visualize_clusters(features)
    /\ pc' = "save_results"
    /\ UNCHANGED <<nb, csv, customers, products, transactions, features,
                   recommendations, clusters, files, escaped>>

\* save_results(features, "Customer_Segments.csv")
SaveResults ==
    /\ pc = "save_results"
    /\ LET r == save_results(features)
       IN  /\ files' = IF r.file = None THEN files
                       ELSE [files EXCEPT !.Segments = r.file]
           /\ out' = out \o r.out
    /\ pc' = "done"
    /\ UNCHANGED <<nb, csv, customers, products, transactions, features,
                   recommendations, clusters, escaped>>

Next ==
    \/ LoadData
    \/ CreateCustomerFeatures
    \/ CalculateSimilarity
    \/ SaveRecommendations
    \/ PerformClustering
    \/ VisualizeClusters
    \/ SaveResults

Spec == Init /\ [][Next]_vars

-----------------------------------------------------------------------------
(* The similarity engine on its own: the lookalike notebook from the cell   *)
(* that calls calculate_similarity, over every small feature table.         *)

SimIds == {1, 2, 21, 22, 23}
SimSpend == {0, 1, 2}
SimRecency == {0, 1}

SimRow(cid, v) ==
    [CustomerID |-> cid,
     val |-> [c \in {"TotalValue_sum", "recency"} |->
                RatInt(IF c = "TotalValue_sum" THEN v[1] ELSE v[2])]]

SimTables ==
    UNION {{[cols |-> {"CustomerID", "TotalValue_sum", "recency"},
             rows |-> [i \in 1..Cardinality(ids) |-> SimRow(SortedSeq(ids)[i], v[i])]] :
                v \in [1..Cardinality(ids) -> SimSpend \X SimRecency]} :
           ids \in {I \in SUBSET SimIds : Cardinality(I) \in 1..MaxRows}}

InitSim ==
    /\ nb = "lookalike"
    /\ pc = "similarity"
    /\ csv = [Customers |-> None, Products |-> None, Transactions |-> None]
    /\ customers = None
    /\ products = None
    /\ transactions = None
    /\ features \in SimTables
    /\ recommendations = None
    /\ clusters = None
    /\ files = [Lookalike |-> None, Segments |-> None]
    /\ out = <<>>
    /\ escaped = {}

NextSim == CalculateSimilarity \/ SaveRecommendations

SpecSim == InitSim /\ [][NextSim]_vars

-----------------------------------------------------------------------------
(* The segmentation notebook on datasets with about as many customers as    *)
(* clusters: one transaction per customer, of one of two kinds.             *)

MaxSegCustomers == 6  \* customers of a segmentation dataset

SegKinds == {1, 2}

\* The transaction of a kind: an early one of product 1, a late one of
\* product 2, a late one of product 1.
SegTx(cid, kind) ==
    [CustomerID |-> cid, ProductID |-> IF kind = 2 THEN 2 ELSE 1,
     Quantity |-> 1, TotalValue |-> 2,
     TransactionDate |-> IF kind = 1 THEN 0 ELSE 3]

SegWorlds ==
    UNION {{[Customers |->
                CustomersCsv("CustomerID", "object",
                             [i \in 1..n |-> [CustomerID |-> i, Region |-> "Asia"]]),
             Products |-> ProductsCsv("ProductID", SmallProducts),
             Transactions |->
                TransactionsCsv("CustomerID", "ProductID",
                                [i \in 1..n |-> SegTx(i, kind[i])])] :
                kind \in [1..n -> SegKinds]} :
           n \in (n_clusters - 1)..MaxSegCustomers}

InitSeg ==
    /\ nb = "segmentation"
    /\ pc = "load"
    /\ csv \in SegWorlds
    /\ customers = None
    /\ products = None
    /\ transactions = None
    /\ features = None
    /\ recommendations = None
    /\ clusters = None
    /\ files = [Lookalike |-> None, Segments |-> None]
    /\ out = <<>>
    /\ escaped = {}

NextSeg ==
    \/ LoadData
    \/ CreateCustomerFeatures
    \/ PerformClustering
    \/ VisualizeClusters
    \/ SaveResults

SpecSeg == InitSeg /\ [][NextSeg]_vars

-----------------------------------------------------------------------------
(* The lookalike notebook on datasets of a few customers, one transaction   *)
(* per customer, whose customers table may hold one customer twice.         *)

MaxLookCustomers == 3  \* customers of a lookalike dataset

LookKinds == {1, 2, 3}

\* The id of the i-th customer: in a dataset with queried customers the
\* first two are among them and the others are not.
LookId(i, queried) == IF queried /\ i \in {1, 2} THEN i ELSE NumTargets + i

\* The customers table: a row per customer and, for extra # None, one more
\* row for a customer it already holds.
LookCustomerRows(n, queried, extra) ==
    [i \in 1..n |-> [CustomerID |-> LookId(i, queried), Region |-> "Asia"]]
        \o (IF extra = None THEN <<>> ELSE <<extra>>)

\* The datasets of n customers, with or without queried customers.
LookWorldsOf(n, queried) ==
    {[Customers |->
        CustomersCsv("CustomerID", "object", LookCustomerRows(n, queried, extra)),
      Products |-> ProductsCsv("ProductID", SmallProducts),
      Transactions |->
        TransactionsCsv("CustomerID", "ProductID",
                        [i \in 1..n |-> SegTx(LookId(i, queried), kind[i])])] :
        kind \in [1..n -> LookKinds],
        extra \in {None} \cup [CustomerID : {LookId(i, queried) : i \in 1..n},
                               Region : Regions]}

LookWorlds ==
    UNION {LookWorldsOf(n, queried) :
              n \in 1..MaxLookCustomers, queried \in BOOLEAN}

InitLook ==
    /\ nb = "lookalike"
    /\ pc = "load"
    /\ csv \in LookWorlds
    /\ customers = None
    /\ products = None
    /\ transactions = None
    /\ features = None
    /\ recommendations = None
    /\ clusters = None
    /\ files = [Lookalike |-> None, Segments |-> None]
    /\ out = <<>>
    /\ escaped = {}

NextLook ==
    \/ LoadData
    \/ CreateCustomerFeatures
    \/ CalculateSimilarity
    \/ SaveRecommendations

SpecLook == InitLook /\ [][NextLook]_vars

-----------------------------------------------------------------------------
(* Properties of the similarity engine.                                     *)

\* The cell calling calculate_similarity has run and returned a mapping.
SimilarityReturned == pc = "save_recs" /\ recommendations # None

NeighborIds(l) == {l[k][1] : k \in 1..Len(l)}

\* The similarity row of a target of the feature table.
ScoresOf(F, t) ==
    cosine_similarity(StandardScaler(F), Len(F.rows))[customer_indices(F)[t]]

\* C1: the neighbor list returned for a target never contains the target's
\* own customer id.
C1_NoSelfNeighbor ==
    SimilarityReturned =>
        \A t \in DOMAIN recommendations.map :
            t \notin NeighborIds(recommendations.map[t])

\* C2: the index dropped from the 4 highest-scoring indices is the target's
\* own, so no customer outside the list, other than the target, has a score
\* strictly greater than a score in the list.
C2_TopThreeOthers ==
    SimilarityReturned =>
        \A t \in DOMAIN recommendations.map :
            LET l == recommendations.map[t]
                scores == ScoresOf(features, t)
            IN  /\ t \notin NeighborIds(l)
                /\ \A j \in 1..Len(features.rows) :
                      (/\ features.rows[j].CustomerID # t
                       /\ features.rows[j].CustomerID \notin NeighborIds(l))
                      => \A k \in 1..Len(l) : ~ScoreLess(l[k][2], scores[j])

\* The scores along every neighbor list are in descending order.
ListsDescending ==
    \A t \in DOMAIN recommendations.map :
        \A k \in 1..(Len(recommendations.map[t]) - 1) :
            ~ScoreLess(recommendations.map[t][k][2],
                       recommendations.map[t][k + 1][2])

\* Neighbors with equal scores follow one another in row order (up = TRUE:
\* ascending row position, up = FALSE: descending) in every list.
TiesInRowOrder(up) ==
    \A t \in DOMAIN recommendations.map :
        LET l == recommendations.map[t]
            row(k) == customer_indices(features)[l[k][1]]
        IN  \A k \in 1..(Len(l) - 1) :
                l[k][2] = l[k + 1][2] =>
                    IF up THEN row(k) < row(k + 1) ELSE row(k) > row(k + 1)

\* C3 (amended): the scores along every neighbor list are in descending
\* order; nothing fixes the order of neighbors with equal scores.
C3_ScoresDescending == SimilarityReturned => ListsDescending

\* C3 (as stated): descending scores, and neighbors with equal scores in one
\* consistent order determined by their row position.
C3_TiesByRowPosition ==
    SimilarityReturned =>
        ListsDescending /\ (TiesInRowOrder(TRUE) \/ TiesInRowOrder(FALSE))

\* A list of three neighbors with three different scores has been returned.
C3_Witness ==
    /\ SimilarityReturned
    /\ \E t \in DOMAIN recommendations.map :
        LET l == recommendations.map[t]
        IN  /\ Len(l) = 3
            /\ ScoreLess(l[2][2], l[1][2])
            /\ ScoreLess(l[3][2], l[2][2])

\* C4: a target's list has exactly 3 pairs whenever the feature table has at
\* least 4 rows, and fewer than 3 only when the table has fewer than 4 rows.
C4_ThreePairs ==
    SimilarityReturned =>
        \A t \in DOMAIN recommendations.map :
            /\ Len(features.rows) >= 4 => Len(recommendations.map[t]) = 3
            /\ Len(recommendations.map[t]) < 3 => Len(features.rows) < 4
            /\ Len(recommendations.map[t]) <= 3

\* Lists of 3 pairs have been returned for a table of at least 4 rows.
C4_Witness ==
    /\ SimilarityReturned
    /\ Len(features.rows) >= 4
    /\ DOMAIN recommendations.map # {}
    /\ \A t \in DOMAIN recommendations.map : Len(recommendations.map[t]) = 3

\* C5: calculate_similarity returns a mapping, without an error, whose keys
\* are exactly the queried ids that occur in the feature table, and a target
\* absent from the table leaves each present target the list it gets from
\* its own similarity row.
C5_EntriesForPresentTargets ==
    pc = "save_recs" =>
        /\ recommendations # None
        /\ DOMAIN recommendations.map
              = {t \in Range(target_customers) :
                    \E i \in 1..Len(features.rows) : features.rows[i].CustomerID = t}
        /\ \A t \in DOMAIN recommendations.map :
              LET scores == ScoresOf(features, t)
              IN  \A k \in 1..Len(recommendations.map[t]) :
                      \E j \in 1..Len(features.rows) :
                          recommendations.map[t][k]
                              = <<features.rows[j].CustomerID, scores[j]>>
        /\ "Error calculating similarity" \notin Range(out)

\* A mapping with entries has been returned although queried ids are absent
\* from the feature table.
C5_Witness ==
    /\ SimilarityReturned
    /\ DOMAIN recommendations.map # {}
    /\ \E t \in Range(target_customers) : t \notin FeatureIds(features)

-----------------------------------------------------------------------------
(* Properties of the feature builder.                                       *)

\* create_customer_features has returned a table.
FeaturesBuilt ==
    pc \in {"similarity", "save_recs", "clustering", "visualize",
            "save_results", "done"}

Categories == {"Books", "Clothing"}

\* The sum of the per-category purchase shares of a feature row.
ShareSum(row) ==
    RatSum(DOMAIN row.val \cap Categories, row.val)

SharesNonNegative(row) ==
    \A c \in DOMAIN row.val \cap Categories : row.val[c][1] >= 0

\* Some transaction of the customer names a product that the products table
\* holds with a category.
HasKnownProduct(cid) ==
    \E i \in 1..Len(transactions.rows), j \in 1..Len(products.rows) :
        /\ transactions.rows[i].CustomerID = cid
        /\ transactions.rows[i].ProductID = products.rows[j].ProductID
        /\ products.rows[j].Category # NaN

\* Some transaction of the customer names a product the table lacks.
HasUnknownProduct(cid) ==
    \E i \in 1..Len(transactions.rows) :
        /\ transactions.rows[i].CustomerID = cid
        /\ \A j \in 1..Len(products.rows) :
              transactions.rows[i].ProductID # products.rows[j].ProductID

\* C6 (as stated): in every row of the feature table the per-category shares
\* are non-negative and sum to 1, whatever the products table holds.
C6_SharesSumToOne ==
    FeaturesBuilt =>
        \A i \in 1..Len(features.rows) :
            /\ SharesNonNegative(features.rows[i])
            /\ ShareSum(features.rows[i]) = RatInt(1)

\* C6 (amended): the shares of a row are non-negative; they sum to 1 when
\* some transaction of the customer names a product that the products table
\* holds with a category, and are all 0 when none does.
C6_SharesOfKnownProducts ==
    FeaturesBuilt =>
        \A i \in 1..Len(features.rows) :
            /\ SharesNonNegative(features.rows[i])
            /\ ShareSum(features.rows[i])
                 = IF HasKnownProduct(features.rows[i].CustomerID)
                   THEN RatInt(1) ELSE RatInt(0)

\* A customer with one transaction on a known and one on an unknown product
\* has a feature row, with shares summing to 1.
C6_Witness ==
    /\ FeaturesBuilt
    /\ \E i \in 1..Len(features.rows) :
        /\ HasKnownProduct(features.rows[i].CustomerID)
        /\ HasUnknownProduct(features.rows[i].CustomerID)
        /\ ShareSum(features.rows[i]) = RatInt(1)

\* The dates of the transactions of a customer.
DatesOf(cid) ==
    {transactions.rows[i].TransactionDate :
        i \in {k \in 1..Len(transactions.rows) :
                  transactions.rows[k].CustomerID = cid}}

AllDates ==
    {transactions.rows[i].TransactionDate : i \in 1..Len(transactions.rows)}

\* C7: in every row recency is a whole number of days, at least 0, equal to
\* the latest transaction date of all minus the customer's own latest
\* transaction date, and 0 for a customer whose latest transaction is on the
\* latest date of all.
C7_Recency ==
    FeaturesBuilt =>
        \A i \in 1..Len(features.rows) :
            LET r    == features.rows[i].val["recency"]
                own  == CHOOSE d \in DatesOf(features.rows[i].CustomerID) :
                            \A e \in DatesOf(features.rows[i].CustomerID) : e <= d
                last == CHOOSE d \in AllDates : \A e \in AllDates : e <= d
            IN  /\ r[2] = 1
                /\ r[1] >= 0
                /\ r[1] * TicksPerDay <= last - own
                /\ last - own < (r[1] + 1) * TicksPerDay
                /\ own = last => r[1] = 0

\* A table with a customer of recency 0 and a customer of recency above 0.
C7_Witness ==
    /\ FeaturesBuilt
    /\ \E i, j \in 1..Len(features.rows) :
        /\ features.rows[i].val["recency"] = RatInt(0)
        /\ features.rows[j].val["recency"][1] > 0

RowsOfId(rows, cid) == {i \in 1..Len(rows) : rows[i].CustomerID = cid}

TransactionIds ==
    {transactions.rows[i].CustomerID : i \in 1..Len(transactions.rows)}

\* C8 (as stated): the feature table has exactly one row per customer id of
\* the transactions table and no row for any other customer.
C8_OneRowPerCustomer ==
    FeaturesBuilt =>
        /\ \A cid \in TransactionIds :
              Cardinality(RowsOfId(features.rows, cid)) = 1
        /\ \A i \in 1..Len(features.rows) :
              features.rows[i].CustomerID \in TransactionIds

\* C8 (amended): the feature table has rows for exactly the customer ids of
\* the transactions table; an id has as many rows as the customers table has
\* rows with that id, and one row when the customers table has none, so one
\* row per customer when no CustomerID repeats in the customers table.
C8_RowsPerCustomer ==
    FeaturesBuilt =>
        /\ \A cid \in TransactionIds :
              Cardinality(RowsOfId(features.rows, cid))
                = IF RowsOfId(customers.rows, cid) = {} THEN 1
                  ELSE Cardinality(RowsOfId(customers.rows, cid))
        /\ \A i \in 1..Len(features.rows) :
              features.rows[i].CustomerID \in TransactionIds

\* A table of one row built from a customers table that holds the customer
\* of the transactions and a customer without transactions.
C8_Witness ==
    /\ FeaturesBuilt
    /\ Len(features.rows) = 1
    /\ \E i \in 1..Len(customers.rows) :
          customers.rows[i].CustomerID \notin TransactionIds
    /\ \E i \in 1..Len(customers.rows) :
          customers.rows[i].CustomerID \in TransactionIds

-----------------------------------------------------------------------------
(* Properties of a run.                                                     *)

\* C9: no exception propagates out of a stage function.
C9_StagesCatchEverything == escaped = {}

\* C10: once a stage has failed no later stage does its work: no
\* Customer_Segments.csv after perform_clustering failed, no Lookalike.csv
\* after calculate_similarity failed.
C10_NothingAfterFailure ==
    /\ (nb = "segmentation" /\ pc \in {"visualize", "save_results", "done"}
            /\ clusters = None)
       => files.Segments = None
    /\ (nb = "lookalike" /\ pc \in {"save_recs", "done"}
            /\ recommendations = None)
       => files.Lookalike = None

-----------------------------------------------------------------------------
(* Properties of the segmentation export.                                   *)

\* The Cluster values of a table are whole numbers in [0, n_clusters).
ClusterLabelsInRange(F) ==
    \A i \in 1..Len(F.rows) :
        /\ F.rows[i].val["Cluster"][2] = 1
        /\ F.rows[i].val["Cluster"][1] \in 0..(n_clusters - 1)

\* C11: a written Customer_Segments.csv holds one row per customer of the
\* feature table, every engineered feature column and a Cluster column whose
\* values are whole numbers in [0, n_clusters).
C11_SegmentsHoldClusters ==
    files.Segments # None =>
        /\ "Cluster" \in files.Segments.cols
        /\ final_features(customers, transactions, products).cols
               \subseteq files.Segments.cols
        /\ \A cid \in TxIds(transactions) :
               Cardinality(RowsOfId(files.Segments.rows, cid)) = 1
        /\ ClusterLabelsInRange(files.Segments)

-----------------------------------------------------------------------------
(* Properties of the cluster plots.                                         *)

PlottedCols ==
    {"total_spend_sum", "recency", "TotalValue_count", "TotalValue_mean",
     "Cluster"}

\* C15: after a clustering that succeeded, visualize_clusters draws both
\* scatter plots and does not enter its error branch: every column it plots
\* is a column of the feature table with the Cluster column appended.
C15_PlotsRendered ==
    (pc \in {"save_results", "done"} /\ clusters # None) =>
        /\ PlottedCols \subseteq features.cols
        /\ "Error visualizing clusters" \notin Range(out)
        /\ "Figure: Total Spend vs. Recency" \in Range(out)
        /\ "Figure: Total Transactions vs. Average Transaction Value"
               \in Range(out)

-----------------------------------------------------------------------------
(* Properties of the dataset loader.                                        *)

\* load_data has returned the three tables.
DataLoaded == pc # "load" /\ customers # None

\* A column the file names old is a column named new of the loaded table.
Renamed(file, table, old, new) == old \in file.cols => new \in table.cols

\* C14: after load_data succeeded, an id column a file supplies as
\* customer_id or product_id is a column CustomerID or ProductID of the
\* loaded table, in customers and products as in transactions.
C14_IdColumnsCanonical ==
    DataLoaded =>
        /\ Renamed(csv.Customers, customers, "customer_id", "CustomerID")
        /\ Renamed(csv.Products, products, "product_id", "ProductID")
        /\ Renamed(csv.Transactions, transactions, "customer_id", "CustomerID")
        /\ Renamed(csv.Transactions, transactions, "product_id", "ProductID")

-----------------------------------------------------------------------------
(* Properties of the messages.                                              *)

\* C16: "Data loaded successfully" is printed only when load_data returned
\* the tables, "Features created successfully" only when
\* create_customer_features returned a table.
C16_SuccessOnlyAfterSuccess ==
    /\ "Data loaded successfully" \in Range(out) => customers # None
    /\ "Features created successfully" \in Range(out) => features # None

-----------------------------------------------------------------------------
(* Properties of the neighbor lists of the whole lookalike notebook.        *)

\* No two entries of a neighbor list name the same customer.
PairwiseDistinct(l) ==
    \A j, k \in 1..Len(l) : l[j][1] = l[k][1] => j = k

\* No CustomerID is in two rows of the customers table.
CustomerIdsUnique ==
    \A i, j \in 1..Len(customers.rows) :
        customers.rows[i].CustomerID = customers.rows[j].CustomerID => i = j

\* C17 (as stated): the neighbor ids of every list of the mapping are
\* pairwise distinct customer ids of the feature table, whatever the tables.
C17_NeighborsDistinct ==
    SimilarityReturned =>
        \A t \in DOMAIN recommendations.map :
            /\ NeighborIds(recommendations.map[t]) \subseteq FeatureIds(features)
            /\ PairwiseDistinct(recommendations.map[t])

\* C17 (amended): the neighbor ids of every list of the mapping are customer
\* ids of the feature table, and they are pairwise distinct when no
\* CustomerID is in two rows of the customers table.
C17_NeighborsDistinctForUniqueIds ==
    SimilarityReturned =>
        \A t \in DOMAIN recommendations.map :
            /\ NeighborIds(recommendations.map[t]) \subseteq FeatureIds(features)
            /\ CustomerIdsUnique => PairwiseDistinct(recommendations.map[t])

\* A customers table without a repeated id has given a list of two
\* neighbors or more.
C17_Witness ==
    /\ SimilarityReturned
    /\ CustomerIdsUnique
    /\ \E t \in DOMAIN recommendations.map : Len(recommendations.map[t]) >= 2

-----------------------------------------------------------------------------
(* Properties of the recommendations export.                                *)

\* Lookalike.csv has been written.
LookalikeWritten == files.Lookalike # None

\* A Recommendations field: at most 3 pairs of a customer id of the feature
\* table and a score printed with 4 decimals, of absolute value at most 1.
WellFormedField(row) ==
    /\ Len(row) <= TopSlice - 1
    /\ \A k \in 1..Len(row) :
        /\ row[k][1] \in FeatureIds(features)
        /\ row[k][2].neg \in BOOLEAN
        /\ row[k][2].tenk \in 0..Base

\* C13 (as stated): Lookalike.csv has a row for each queried customer id,
\* C0001..C0020, each with a well-formed Recommendations field.
C13_RowPerQueriedCustomer ==
    LookalikeWritten =>
        /\ DOMAIN files.Lookalike.rows = Range(target_customers)
        /\ \A t \in DOMAIN files.Lookalike.rows :
               WellFormedField(files.Lookalike.rows[t])

\* C13 (amended): Lookalike.csv has a row for each queried customer id that
\* is a customer id of the feature table and for no other id, each with a
\* well-formed Recommendations field.
C13_RowPerPresentQueriedCustomer ==
    LookalikeWritten =>
        /\ DOMAIN files.Lookalike.rows =
               Range(target_customers) \cap FeatureIds(features)
        /\ \A t \in DOMAIN files.Lookalike.rows :
               WellFormedField(files.Lookalike.rows[t])

\* A file with a row of three pairs, written for a feature table that lacks
\* some queried customer.
C13_Witness ==
    /\ LookalikeWritten
    /\ \E t \in DOMAIN files.Lookalike.rows : Len(files.Lookalike.rows[t]) = 3
    /\ ~(Range(target_customers) \subseteq FeatureIds(features))

-----------------------------------------------------------------------------
(* The round trip of the recommendations through Lookalike.csv.             *)

\* float() of a printed score: the score sgn * sqrt(num / den) that is the
\* printed number of ten-thousandths.
ParseScore(f) ==
    LET r == Rat(f.tenk * f.tenk, Base * Base)
    IN  [sgn |-> IF f.tenk = 0 THEN 0 ELSE IF f.neg THEN -1 ELSE 1,
         num |-> r[1], den |-> r[2]]

\* A Recommendations field split on ';' and each item on ',': the pairs it
\* joins; the empty field of an empty list splits into one empty item.
ReloadField(row) ==
    IF row = <<>> THEN <<<<"">>>>
    ELSE [k \in 1..Len(row) |-> <<row[k][1], ParseScore(row[k][2])>>]

\* The mapping read back from the rows of a file.
Reload(file) == [t \in DOMAIN file.rows |-> ReloadField(file.rows[t])]

\* A printed score is within half a ten-thousandth of the score: with k the
\* whole part of 4 * 10^8 * num / den, (2q - 1)^2 <= k and the value is at
\* most (2q + 1)^2.
PrintedClose(score, f) ==
    LET bs == <<Base, Base, 4>>
        k  == ScaledFloor(score.num \div score.den, score.num % score.den,
                          score.den, bs)
        ex == ScaledRem(score.num % score.den, score.den, bs) = 0
        lo == (2 * f.tenk - 1) * (2 * f.tenk - 1)
        hi == (2 * f.tenk + 1) * (2 * f.tenk + 1)
    IN  /\ f.neg <=> score.sgn < 0
        /\ f.tenk = 0 \/ lo <= k
        /\ k < hi \/ (k = hi /\ ex)

\* C12 (as stated): the mapping read back from Lookalike.csv is the mapping
\* that was written: same customer ids, same neighbor ids in the same order,
\* same scores.
C12_RoundTripExact ==
    (LookalikeWritten /\ recommendations # None) =>
        Reload(files.Lookalike) = recommendations.map

\* C12 (amended): the file has the customer ids of the mapping; a list that
\* is not empty reads back with the same neighbor ids in the same order and
\* each score within half a ten-thousandth of the one written; an empty
\* list is an empty field.
C12_RoundTripToFourDecimals ==
    (LookalikeWritten /\ recommendations # None) =>
        /\ DOMAIN files.Lookalike.rows = DOMAIN recommendations.map
        /\ \A t \in DOMAIN recommendations.map :
            LET l == recommendations.map[t]
                row == files.Lookalike.rows[t]
            IN  /\ Len(row) = Len(l)
                /\ l # <<>> =>
                    /\ Len(ReloadField(row)) = Len(l)
                    /\ \A k \in 1..Len(l) :
                        /\ ReloadField(row)[k][1] = l[k][1]
                        /\ PrintedClose(l[k][2], row[k][2])

\* A written list of two neighbors or more, one of whose scores does not
\* read back as it was, from a customers table without a repeated id.
C12_Witness ==
    /\ LookalikeWritten
    /\ recommendations # None
    /\ CustomerIdsUnique
    /\ \E t \in DOMAIN recommendations.map :
        /\ Len(recommendations.map[t]) >= 2
        /\ \E k \in 1..Len(recommendations.map[t]) :
            ReloadField(files.Lookalike.rows[t])[k][2]
                # recommendations.map[t][k][2]

====
